---- MODULE Spec2Model ----
(***************************************************************************)
(* Model of the component generation pipeline of nuxt-ssr-ai:              *)
(*   - server/api/ai.ts : the request handler and generateTailwindCss      *)
(*   - app.vue          : generateComponent and the dynamic component host *)
(* Strings are TLA+ strings; JavaScript values are records [t, v] where t  *)
(* is the typeof tag and v the string payload.                             *)
(***************************************************************************)
EXTENDS Integers, Sequences, FiniteSets, TLC

\* ------------------------------------------------------------------ bounds
\* Number of requests the server handles in one behaviour.
MaxRequests == 2

\* ------------------------------------------------------- program constants
MinPromptLen == 3
MinTemplateLen == 10

\* --------------------------------------------------------- JavaScript values
Undef == [t |-> "undefined", v |-> ""]
Str(s) == [t |-> "string", v |-> s]
Num == [t |-> "number", v |-> "1"]
Arr == [t |-> "object", v |-> "a,b"]

\* JavaScript truthiness of a value (the operand of ! and &&).
Truthy(x) ==
    CASE x.t = "undefined" -> FALSE
      [] x.t = "string" -> x.v # ""
      [] OTHER -> TRUE

\* String.prototype.trim
WhiteSpace == {" ", "\t", "\n"}

RECURSIVE TrimStart(_)
TrimStart(s) ==
    IF Len(s) > 0 /\ SubSeq(s, 1, 1) \in WhiteSpace
    THEN TrimStart(SubSeq(s, 2, Len(s)))
    ELSE s

RECURSIVE TrimEnd(_)
TrimEnd(s) ==
    IF Len(s) > 0 /\ SubSeq(s, Len(s), Len(s)) \in WhiteSpace
    THEN TrimEnd(SubSeq(s, 1, Len(s) - 1))
    ELSE s

Trim(s) == TrimEnd(TrimStart(s))

\* String.prototype.includes
Includes(s, m) ==
    \E i \in 1..(Len(s) - Len(m) + 1) : SubSeq(s, i, i + Len(m) - 1) = m

\* ------------------------------------------------------------ server inputs
\* query.prompt as getQuery delivers it: absent, a string, or an array.
Prompts ==
    { Undef, Arr, Str(""), Str("  "), Str("x"), Str(" ab "), Str("\tx\n "),
      Str("abc"), Str("Generate a table") }

\* The texts the model may put in the fields of its structured reply.
Templates ==
    { Undef, Num, Str(""), Str("   "), Str("<p>hi</p>"),
      Str("   <b>x</b>   "), Str("<table></table>"),
      Str("<div class=\"p-4\">ok</div>") }

Scripts ==
    { Undef, Num, Str(""), Str("x"), Str("return x"),
      Str("const rows = ref([])"), Str("const rows = ref([])\nreturn { rows }"),
      Str("return {") }

LlmCss == { Undef, Num, Str(""), Str(".llm{color:red}") }

\* message.content of the first choice.
NoObj == [template |-> Undef, script |-> Undef, css |-> Undef]
Contents ==
    { [kind |-> k, obj |-> NoObj] : k \in {"null", "empty", "garbage"} }
    \cup
    { [kind |-> "json", obj |-> [template |-> t, script |-> s, css |-> c]] :
        t \in Templates, s \in Scripts, c \in LlmCss }

\* Messages of the errors the LLM client may throw.
LlmErrors == { "Connection error.", "" }

\* What the tailwindcss binary writes to output.css when it exits 0.
CssOutputs == { "", ".p-4{padding:1rem}" }

\* Outcomes of execSync: exit 0 with output.css written, exit 0 without it,
\* non-zero exit, binary not found.
ExecOutcomes == { "ok", "noOutput", "nonZero", "missing" }

\* --------------------------------------------------------------- messages
MsgMissing == "Missing or invalid prompt parameter"
MsgShort == "Prompt is too short"
MsgNoContent == "No content returned from AI"
MsgInvalidTemplate == "Invalid template returned from AI"
MsgParse == "Failed to parse AI-generated component"
MsgGeneric == "Failed to generate component"
ReturnSuffix == "\nreturn {};"
ReturnMarker == "return {"

VARIABLES
    pc,            \* position of the handler
    reqCount,      \* requests received so far
    prompt,        \* query.prompt of the current request
    content,       \* message.content returned by the LLM
    validated,     \* validatedContent
    response,      \* what the handler returned
    llmCalls,      \* chat.completions.create calls of the current request
    compilerCalls, \* execSync calls of the current request
    cssCalls,      \* generateTailwindCss calls of the current request
    cssArg,        \* the template argument of generateTailwindCss
    tmpDir,        \* tmpDir of the current generateTailwindCss call, 0: none
    dirs,          \* temporary directories that exist on disk
    templateFile,  \* contents of template.html in tmpDir
    outputFile,    \* contents of output.css in tmpDir
    result,        \* result read from output.css
    generatedCss,  \* value generateTailwindCss returned
    cssFailed,     \* generateTailwindCss went through its catch block
    rmAttempted,   \* fs.rmSync was called on tmpDir
    thrown         \* message of the Error caught by the handler's inner catch

serverVars ==
    << pc, reqCount, prompt, content, validated, response, llmCalls,
       compilerCalls, cssCalls, cssArg, tmpDir, dirs, templateFile,
       outputFile, result, generatedCss, cssFailed, rmAttempted, thrown >>

NoContent == [kind |-> "null", obj |-> NoObj]
NoResponse ==
    [status |-> 0, message |-> "", template |-> Undef, script |-> Undef,
     css |-> Undef]

ErrorResponse(code, msg) ==
    [status |-> code, message |-> msg, template |-> Undef, script |-> Undef,
     css |-> Undef]

Payload(vc) ==
    [status |-> 200, message |-> "", template |-> vc.template,
     script |-> vc.script, css |-> vc.css]

\* ------------------------------------------------------------ client state
VARIABLES
    promptValue,      \* prompt.value, bound to the textarea
    error,            \* error.value, shown when non-empty
    isGenerating,     \* isGenerating.value, disables the button
    dynamicComponent, \* dynamicComponent.value and the data it closes over
    fetchPending,     \* a useFetch started by generateComponent is outstanding
    fetchCount,       \* requests issued by generateComponent
    clicks,           \* invocations of generateComponent
    host,             \* the async component: none, pending, loaded, ...
    setupResult       \* what setup() returned: none, empty, bindings

clientVars ==
    << promptValue, error, isGenerating, dynamicComponent, fetchPending,
       fetchCount, clicks, host, setupResult >>

vars == << serverVars, clientVars >>

\* ------------------------------------------------- handler: pure helpers
\* if (!prompt || typeof prompt !== "string")
BadPrompt(p) == ~Truthy(p) \/ p.t # "string"

\* Mutant: the length check without trim().
ShortPromptNoTrim(p) == Len(p.v) < MinPromptLen

\* if (prompt.trim().length < 3)
ShortPrompt(p) == Len(Trim(p.v)) < MinPromptLen

\* if (!content)
FalsyContent(c) == c.kind \in {"null", "empty"}

\* AIResponseSchema.parse: template a string, script and css optional strings.
SchemaOk(obj) ==
    /\ obj.template.t = "string"
    /\ obj.script.t \in {"undefined", "string"}
    /\ obj.css.t \in {"undefined", "string"}

\* JSON.parse(content) followed by AIResponseSchema.parse succeeds.
Parses(c) == c.kind = "json" /\ SchemaOk(c.obj)

\* Mutant: a css the LLM supplied is kept.
AttachCssKeep(vc, css) ==
    IF vc.css.t = "string" THEN vc ELSE [vc EXCEPT !.css = Str(css)]

\* validatedContent.css = generatedCss
AttachCss(vc, css) == [vc EXCEPT !.css = Str(css)]

\* Mutant: the template length check without trim().
InvalidTemplateNoTrim(vc) ==
    ~Truthy(vc.template) \/ Len(vc.template.v) < MinTemplateLen

\* !validatedContent.template || validatedContent.template.trim().length < 10
InvalidTemplate(vc) ==
    ~Truthy(vc.template) \/ Len(Trim(vc.template.v)) < MinTemplateLen

\* Mutant: any "return" counts as the marker.
NeedsReturnLoose(vc) ==
    Truthy(vc.script) /\ ~Includes(vc.script.v, "return")

\* validatedContent.script && !validatedContent.script.includes("return {")
NeedsReturn(vc) ==
    Truthy(vc.script) /\ ~Includes(vc.script.v, ReturnMarker)

\* validatedContent.script += "\nreturn {};"
RepairScript(vc) ==
    IF NeedsReturn(vc)
    THEN [vc EXCEPT !.script = Str(vc.script.v \o ReturnSuffix)]
    ELSE vc

\* The outer catch: createError({statusCode: 500, message: error.message || ...})
OuterCatch(msg) == ErrorResponse(500, IF msg # "" THEN msg ELSE MsgGeneric)

\* The inner catch rethrows createError(500, MsgParse), which the outer catch
\* turns into the returned error.
InnerCatch == OuterCatch(MsgParse)

\* --------------------------------------------------------------- server Init
ServerInit ==
    /\ pc = "idle"
    /\ reqCount = 0
    /\ prompt = Undef
    /\ content = NoContent
    /\ validated = NoObj
    /\ response = NoResponse
    /\ llmCalls = 0
    /\ compilerCalls = 0
    /\ cssCalls = 0
    /\ cssArg = ""
    /\ tmpDir = 0
    /\ dirs = {}
    /\ templateFile = Undef
    /\ outputFile = Undef
    /\ result = ""
    /\ generatedCss = ""
    /\ cssFailed = FALSE
    /\ rmAttempted = FALSE
    /\ thrown = ""

cssVars ==
    << cssArg, tmpDir, dirs, templateFile, outputFile, result, generatedCss,
       cssFailed, rmAttempted >>

\* ------------------------------------------------------------ handler steps
\* A request arrives: const prompt = getQuery(event).prompt
Receive(q) ==
    /\ pc \in {"idle", "done"}
    /\ UNCHANGED clientVars
    /\ reqCount < MaxRequests
    /\ pc' = "received"
    /\ reqCount' = reqCount + 1
    /\ prompt' = q
    /\ content' = NoContent
    /\ validated' = NoObj
    /\ response' = NoResponse
    /\ llmCalls' = 0
    /\ compilerCalls' = 0
    /\ cssCalls' = 0
    /\ cssArg' = ""
    /\ tmpDir' = 0
    /\ templateFile' = Undef
    /\ outputFile' = Undef
    /\ result' = ""
    /\ generatedCss' = ""
    /\ cssFailed' = FALSE
    /\ rmAttempted' = FALSE
    /\ thrown' = ""
    /\ UNCHANGED dirs

\* Input validation: the two early returns with status 400.
RejectPrompt ==
    /\ pc = "received"
    /\ UNCHANGED clientVars
    /\ BadPrompt(prompt) \/ ShortPrompt(prompt)
    /\ response' =
         IF BadPrompt(prompt) THEN ErrorResponse(400, MsgMissing)
         ELSE ErrorResponse(400, MsgShort)
    /\ pc' = "done"
    /\ UNCHANGED << reqCount, prompt, content, validated, llmCalls,
                    compilerCalls, cssCalls, thrown >>
    /\ UNCHANGED cssVars

\* openai.chat.completions.create(...)
CallLLM ==
    /\ pc = "received"
    /\ UNCHANGED clientVars
    /\ ~BadPrompt(prompt)
    /\ ~ShortPrompt(prompt)
    /\ llmCalls' = llmCalls + 1
    /\ pc' = "awaitLLM"
    /\ UNCHANGED << reqCount, prompt, content, validated, response,
                    compilerCalls, cssCalls, thrown >>
    /\ UNCHANGED cssVars

\* Mutant: a rejected call is retried.
LLMThrowsRetry(msg) ==
    /\ pc = "awaitLLM"
    /\ pc' = "received"
    /\ UNCHANGED clientVars
    /\ UNCHANGED << reqCount, prompt, content, validated, response, llmCalls,
                    compilerCalls, cssCalls, thrown >>
    /\ UNCHANGED cssVars

\* The awaited call rejects: the outer catch returns a 500.
LLMThrows(msg) ==
    /\ pc = "awaitLLM"
    /\ UNCHANGED clientVars
    /\ response' = OuterCatch(msg)
    /\ pc' = "done"
    /\ UNCHANGED << reqCount, prompt, content, validated, llmCalls,
                    compilerCalls, cssCalls, thrown >>
    /\ UNCHANGED cssVars

\* The awaited call resolves; if (!content) throw new Error(MsgNoContent)
LLMReturns(c) ==
    /\ pc = "awaitLLM"
    /\ UNCHANGED clientVars
    /\ content' = c
    /\ IF FalsyContent(c)
       THEN /\ response' = OuterCatch(MsgNoContent)
            /\ pc' = "done"
       ELSE /\ response' = response
            /\ pc' = "parse"
    /\ UNCHANGED << reqCount, prompt, validated, llmCalls, compilerCalls,
                    cssCalls, thrown >>
    /\ UNCHANGED cssVars

\* JSON.parse, AIResponseSchema.parse, then the call of generateTailwindCss.
ParseContent ==
    /\ pc = "parse"
    /\ UNCHANGED clientVars
    /\ IF Parses(content)
       THEN /\ validated' = content.obj
            /\ cssArg' = content.obj.template.v
            /\ cssCalls' = cssCalls + 1
            /\ pc' = "mkdtemp"
            /\ UNCHANGED << response, thrown >>
       ELSE /\ thrown' = "parse or schema error"
            /\ response' = InnerCatch
            /\ pc' = "done"
            /\ UNCHANGED << validated, cssArg, cssCalls >>
    /\ UNCHANGED << reqCount, prompt, content, llmCalls, compilerCalls,
                    tmpDir, dirs, templateFile, outputFile, result,
                    generatedCss, cssFailed, rmAttempted >>

handlerVars ==
    << reqCount, prompt, content, validated, response, llmCalls, cssCalls,
       thrown >>

\* ------------------------------------------------------ generateTailwindCss
\* fs.mkdtempSync(path.join(process.cwd(), ".tmp", "tailwind-"))
Mkdtemp(ok) ==
    /\ pc = "mkdtemp"
    /\ UNCHANGED clientVars
    /\ IF ok
       THEN /\ tmpDir' = reqCount
            /\ dirs' = dirs \cup {reqCount}
            /\ pc' = "writeConfig"
       ELSE /\ pc' = "cssCatch"
            /\ UNCHANGED << tmpDir, dirs >>
    /\ UNCHANGED handlerVars
    /\ UNCHANGED << compilerCalls, cssArg, templateFile, outputFile, result,
                    generatedCss, cssFailed, rmAttempted >>

\* The three fs.writeFileSync calls: tailwind.config.js, template.html,
\* input.css.
WriteFileSync(ok) ==
    /\ pc \in {"writeConfig", "writeTemplate", "writeInput"}
    /\ UNCHANGED clientVars
    /\ IF ok
       THEN /\ pc' = CASE pc = "writeConfig" -> "writeTemplate"
                       [] pc = "writeTemplate" -> "writeInput"
                       [] OTHER -> "exec"
            /\ templateFile' =
                 IF pc = "writeTemplate" THEN Str(cssArg) ELSE templateFile
       ELSE /\ pc' = "cssCatch"
            /\ UNCHANGED templateFile
    /\ UNCHANGED handlerVars
    /\ UNCHANGED << compilerCalls, cssArg, tmpDir, dirs, outputFile, result,
                    generatedCss, cssFailed, rmAttempted >>

\* execSync(tailwindCommand, { stdio: "pipe", cwd: tmpDir })
ExecSync(outcome, css) ==
    /\ pc = "exec"
    /\ UNCHANGED clientVars
    /\ compilerCalls' = compilerCalls + 1
    /\ CASE outcome = "ok" ->
              /\ outputFile' = Str(css)
              /\ pc' = "read"
         [] outcome = "noOutput" ->
              /\ UNCHANGED outputFile
              /\ pc' = "read"
         [] OTHER ->
              /\ UNCHANGED outputFile
              /\ pc' = "cssCatch"
    /\ UNCHANGED handlerVars
    /\ UNCHANGED << cssArg, tmpDir, dirs, templateFile, result, generatedCss,
                    cssFailed, rmAttempted >>

\* fs.readFileSync(outputPath, "utf8")
ReadFileSync(ok) ==
    /\ pc = "read"
    /\ UNCHANGED clientVars
    /\ IF ok /\ outputFile.t = "string"
       THEN /\ result' = outputFile.v
            /\ pc' = "cleanup"
       ELSE /\ pc' = "cssCatch"
            /\ UNCHANGED result
    /\ UNCHANGED handlerVars
    /\ UNCHANGED << compilerCalls, cssArg, tmpDir, dirs, templateFile,
                    outputFile, generatedCss, cssFailed, rmAttempted >>

\* try { fs.rmSync(tmpDir, {recursive, force}) } catch { console.warn }
\* followed by return result.
RmSync(ok) ==
    /\ pc = "cleanup"
    /\ UNCHANGED clientVars
    /\ rmAttempted' = TRUE
    /\ dirs' = IF ok THEN dirs \ {tmpDir} ELSE dirs
    /\ generatedCss' = result
    /\ pc' = "cssReturned"
    /\ UNCHANGED handlerVars
    /\ UNCHANGED << compilerCalls, cssArg, tmpDir, templateFile, outputFile,
                    result, cssFailed >>

\* Mutant: the catch block rethrows instead of returning "".
CssCatchRethrow ==
    /\ pc = "cssCatch"
    /\ UNCHANGED clientVars
    /\ cssFailed' = TRUE
    /\ response' = OuterCatch("Command failed")
    /\ pc' = "done"
    /\ UNCHANGED << reqCount, prompt, content, validated, llmCalls, cssCalls,
                    thrown >>
    /\ UNCHANGED << compilerCalls, cssArg, tmpDir, dirs, templateFile,
                    outputFile, result, generatedCss, rmAttempted >>

\* catch (error) { console.error(...); return ""; }
CssCatch ==
    /\ pc = "cssCatch"
    /\ UNCHANGED clientVars
    /\ generatedCss' = ""
    /\ cssFailed' = TRUE
    /\ pc' = "cssReturned"
    /\ UNCHANGED handlerVars
    /\ UNCHANGED << compilerCalls, cssArg, tmpDir, dirs, templateFile,
                    outputFile, result, rmAttempted >>

\* ------------------------------------------------- handler: after the await
\* validatedContent.css = generatedCss; the template check; the script
\* repair; return validatedContent.
Finish ==
    /\ pc = "cssReturned"
    /\ UNCHANGED clientVars
    /\ LET vc == AttachCss(validated, generatedCss) IN
         IF InvalidTemplate(vc)
         THEN /\ validated' = vc
              /\ thrown' = MsgInvalidTemplate
              /\ response' = InnerCatch
         ELSE /\ validated' = RepairScript(vc)
              /\ response' = Payload(RepairScript(vc))
              /\ UNCHANGED thrown
    /\ pc' = "done"
    /\ UNCHANGED << reqCount, prompt, content, llmCalls, compilerCalls,
                    cssCalls >>
    /\ UNCHANGED cssVars


\* ================================================================== client
\* Number of generateComponent invocations in one behaviour.
MaxClicks == 3

MsgEnterPrompt == "Please enter a prompt"
MsgFetchPrefix == "Failed to generate component: "
MsgUnknown == "Unknown error"
MsgSetupPrefix == "Component generation failed: "

\* What the user may type into the textarea.
TypedPrompts == { "", "  \n", "x", "Generate a table" }

\* Scripts the server may deliver, by what the JavaScript engine does with
\* them inside the generated function body.
SyntaxErrorScripts == { "const = ;\nreturn {};" }
ThrowingScripts == { "undefinedFn()\nreturn {};", "throw new Error('boom')" }
BindingScripts == { "const rows = ref([])\nreturn { rows }" }
ReturningScripts == BindingScripts \cup { "let n = 1\nreturn {};" }
ClientScripts ==
    { Undef } \cup
    { Str(t) : t \in SyntaxErrorScripts \cup ThrowingScripts \cup ReturningScripts }

ClientTemplates == { Undef, Str("<table></table>") }

\* data.value after useFetch resolved: null when the request failed, else
\* the payload.
NullData == [kind |-> "null", template |-> Undef, script |-> Undef]
DataValues ==
    { NullData } \cup
    { [kind |-> "payload", template |-> t, script |-> sc] :
        t \in ClientTemplates, sc \in ClientScripts }

\* Messages of the errors useFetch may throw.
FetchErrors == { "fetch failed", "" }

NoComponent == [set |-> FALSE, data |-> NullData]

ClientInit ==
    /\ promptValue = "Generate a table"
    /\ error = ""
    /\ isGenerating = FALSE
    /\ dynamicComponent = NoComponent
    /\ fetchPending = FALSE
    /\ fetchCount = 0
    /\ clicks = 0
    /\ host = "none"
    /\ setupResult = "none"

\* The body handed to new Function: data.value.script || ""
ScriptBody(d) == IF Truthy(d.script) THEN d.script.v ELSE ""

\* new Function("ref", "computed", body) throws a SyntaxError.
FunctionCtorThrows(body) == body \in SyntaxErrorScripts

\* The script raises while setupFn(ref, computed) runs it.
ScriptThrows(body) == body \in ThrowingScripts

\* v-model="prompt": the user edits the textarea.
EditPrompt(p) ==
    /\ promptValue' = p
    /\ UNCHANGED << error, isGenerating, dynamicComponent, fetchPending,
                    fetchCount, clicks, host, setupResult >>
    /\ UNCHANGED serverVars

\* generateComponent up to its await; the button is :disabled="isGenerating".
GenerateComponent ==
    /\ ~isGenerating
    /\ clicks < MaxClicks
    /\ clicks' = clicks + 1
    /\ IF Trim(promptValue) = ""
       THEN /\ error' = MsgEnterPrompt
            /\ UNCHANGED << isGenerating, fetchPending, fetchCount >>
       ELSE /\ error' = ""
            /\ isGenerating' = TRUE
            /\ fetchPending' = TRUE
            /\ fetchCount' = fetchCount + 1
    /\ UNCHANGED << promptValue, dynamicComponent, host, setupResult >>
    /\ UNCHANGED serverVars

\* Mutant: the flag is not reset.
FinallySkipped == isGenerating' = isGenerating

\* finally { isGenerating.value = false }
Finally == isGenerating' = FALSE

\* await useFetch resolves: dynamicComponent.value = defineAsyncComponent(...)
FetchResolves(d) ==
    /\ fetchPending
    /\ fetchPending' = FALSE
    /\ dynamicComponent' = [set |-> TRUE, data |-> d]
    /\ host' = "pending"
    /\ setupResult' = "none"
    /\ Finally
    /\ UNCHANGED << promptValue, error, fetchCount, clicks >>
    /\ UNCHANGED serverVars

\* await useFetch throws: the catch block sets the error message.
FetchThrows(msg) ==
    /\ fetchPending
    /\ fetchPending' = FALSE
    /\ error' = MsgFetchPrefix \o (IF msg # "" THEN msg ELSE MsgUnknown)
    /\ Finally
    /\ UNCHANGED << promptValue, dynamicComponent, fetchCount, clicks, host,
                    setupResult >>
    /\ UNCHANGED serverVars

\* The loader runs: defineComponent({ template: data.value.template || ... }).
\* With data.value null the loader rejects and the errorComponent is shown.
LoadComponent ==
    /\ host = "pending"
    /\ host' = IF dynamicComponent.data.kind = "null" THEN "loadFailed"
               ELSE "loaded"
    /\ UNCHANGED << promptValue, error, isGenerating, dynamicComponent,
                    fetchPending, fetchCount, clicks, setupResult >>
    /\ UNCHANGED serverVars

\* setup(): the outer try/catch around new Function and setupFn(ref,
\* computed); the generated body has its own try/catch around the script.
Setup ==
    /\ host = "loaded"
    /\ host' = "rendered"
    /\ LET body == ScriptBody(dynamicComponent.data) IN
         IF FunctionCtorThrows(body)
         THEN /\ error' = MsgSetupPrefix \o "SyntaxError"
              /\ setupResult' = "empty"
         ELSE IF ScriptThrows(body)
         THEN /\ setupResult' = "empty"
              /\ UNCHANGED error
         ELSE /\ setupResult' = IF body \in BindingScripts THEN "bindings"
                                ELSE "empty"
              /\ UNCHANGED error
    /\ UNCHANGED << promptValue, isGenerating, dynamicComponent, fetchPending,
                    fetchCount, clicks >>
    /\ UNCHANGED serverVars

\* ----------------------------------------------------------- specifications
Init == ServerInit /\ ClientInit

Next ==
    \/ \E q \in Prompts : Receive(q)
    \/ RejectPrompt
    \/ CallLLM
    \/ \E msg \in LlmErrors : LLMThrows(msg)
    \/ \E c \in Contents : LLMReturns(c)
    \/ ParseContent
    \/ \E ok \in BOOLEAN : Mkdtemp(ok)
    \/ \E ok \in BOOLEAN : WriteFileSync(ok)
    \/ \E o \in ExecOutcomes, css \in CssOutputs : ExecSync(o, css)
    \/ \E ok \in BOOLEAN : ReadFileSync(ok)
    \/ \E ok \in BOOLEAN : RmSync(ok)
    \/ CssCatch
    \/ Finish

Spec == Init /\ [][Next]_vars

ClientNext ==
    \/ \E p \in TypedPrompts : EditPrompt(p)
    \/ GenerateComponent
    \/ \E d \in DataValues : FetchResolves(d)
    \/ \E msg \in FetchErrors : FetchThrows(msg)
    \/ LoadComponent
    \/ Setup

\* An outstanding fetch settles: it resolves or it throws.
FetchSettles ==
    \/ \E d \in DataValues : FetchResolves(d)
    \/ \E msg \in FetchErrors : FetchThrows(msg)

ClientSpec == Init /\ [][ClientNext]_vars /\ WF_vars(FetchSettles)

\* ================================================================== claims
\* The handler has returned.
Returned == pc = "done"

\* The LLM's structured reply passed JSON.parse and the schema.
ReplyAccepted == content.kind = "json" /\ SchemaOk(content.obj)

LlmTemplate == content.obj.template
LlmScript == content.obj.script

\* The prompt is a string of trimmed length >= MinPromptLen.
UsablePrompt == prompt.t = "string" /\ Len(Trim(prompt.v)) >= MinPromptLen

\* C1: once generateTailwindCss has returned, the temporary directory it
\* created no longer exists, or its deletion was attempted.
C1_TmpDirRemoved ==
    (pc = "cssReturned" /\ tmpDir # 0) => (tmpDir \notin dirs \/ rmAttempted)

\* C2: a request whose prompt is missing, not a string, or of trimmed length
\* < 3 ends in a 400 error, with no LLM call and no compiler subprocess; the
\* prompt "x" is answered with the too-short message.
C2_BadPromptRejected ==
    /\ (pc \notin {"idle", "received"} /\ ~UsablePrompt) =>
         /\ pc = "done"
         /\ response.status = 400
         /\ response.message \in {MsgMissing, MsgShort}
         /\ llmCalls = 0
         /\ compilerCalls = 0
         /\ cssCalls = 0
    /\ (pc = "done" /\ prompt = Str("x")) => response.message = MsgShort

C2_Witness ==
    /\ pc = "done"
    /\ prompt = Str(" ab ")
    /\ response.status = 400
    /\ llmCalls = 0

\* C3 as stated: for every script (the empty one included) that lacks
\* "return {", the returned script is the original followed by "\nreturn {};"
\* and the template is returned as the LLM gave it.
C3_EveryScriptRepaired ==
    (/\ Returned
     /\ response.status = 200
     /\ LlmScript.t = "string"
     /\ ~Includes(LlmScript.v, ReturnMarker)) =>
        /\ response.script = Str(LlmScript.v \o ReturnSuffix)
        /\ response.template = LlmTemplate

\* C3 amended: for every non-empty script that lacks "return {", the
\* returned script is the original followed by "\nreturn {};" and the
\* template is returned as the LLM gave it; an empty or absent script is
\* returned unchanged.
C3_NonEmptyScriptRepaired ==
    (Returned /\ response.status = 200) =>
        /\ response.template = LlmTemplate
        /\ (LlmScript.t = "string" /\ LlmScript.v # ""
              /\ ~Includes(LlmScript.v, ReturnMarker)) =>
             response.script = Str(LlmScript.v \o ReturnSuffix)
        /\ (LlmScript.t = "string" /\ Includes(LlmScript.v, ReturnMarker)) =>
             response.script = LlmScript
        /\ (LlmScript.t = "undefined" \/ LlmScript.v = "") =>
             response.script = LlmScript

C3_Witness ==
    /\ Returned
    /\ response.status = 200
    /\ LlmScript = Str("return x")
    /\ response.script = Str("return x\nreturn {};")

\* C4: when the style compiler step failed and the LLM's template is valid,
\* the request succeeds with the component payload and an empty css.
C4_CompilerFailureTolerated ==
    (/\ Returned
     /\ cssFailed
     /\ Len(Trim(LlmTemplate.v)) >= MinTemplateLen) =>
        /\ response.status = 200
        /\ response.css = Str("")
        /\ response.template = LlmTemplate

C4_Witness ==
    /\ Returned
    /\ cssFailed
    /\ compilerCalls = 1
    /\ tmpDir # 0
    /\ response.status = 200
    /\ response.css = Str("")

\* C5: a template of trimmed length < 10 ends the request in a 500 error,
\* whatever the script, the css and the compiler outcome; no payload carries
\* such a template.
C5_ShortTemplateRejected ==
    /\ (/\ Returned
        /\ content.kind = "json"
        /\ LlmTemplate.t = "string"
        /\ Len(Trim(LlmTemplate.v)) < MinTemplateLen) =>
           response.status = 500
    /\ response.status = 200 =>
           /\ response.template.t = "string"
           /\ Len(Trim(response.template.v)) >= MinTemplateLen

C5_Witness ==
    /\ Returned
    /\ LlmTemplate = Str("   <b>x</b>   ")
    /\ LlmScript.t = "string"
    /\ cssCalls = 1
    /\ ~cssFailed
    /\ response.status = 500

\* C6: when the LLM returns the empty template, the response is a 500 error
\* whose message says the template is invalid, and the compiler was not
\* invoked or its result is not in the response.
C6_EmptyTemplateMessage ==
    (Returned /\ ReplyAccepted /\ LlmTemplate = Str("")) =>
        /\ response.status = 500
        /\ response.message = MsgInvalidTemplate
        /\ (compilerCalls = 0 \/ response.css = Undef)

C8_RuntimeErrorReported ==
    (host = "rendered" /\ ScriptThrows(ScriptBody(dynamicComponent.data))) =>
        (error # "" /\ setupResult = "empty")

\* C9: in a successful response the css is what generateTailwindCss returned
\* for the LLM's template (the compiler's output file, or "" after a
\* failure), never the css of the LLM's reply.
C9_CssFromCompiler ==
    (Returned /\ response.status = 200) =>
        /\ cssArg = LlmTemplate.v
        /\ response.css = Str(generatedCss)
        /\ cssFailed => generatedCss = ""
        /\ ~cssFailed =>
             /\ templateFile = LlmTemplate
             /\ outputFile = Str(generatedCss)

C9_Witness ==
    /\ Returned
    /\ response.status = 200
    /\ content.obj.css = Str(".llm{color:red}")
    /\ response.css = Str(".p-4{padding:1rem}")

\* C10: isGenerating is true only while a fetch is outstanding; whenever it
\* is true it is eventually false again; a generateComponent invocation
\* with a blank prompt sets the error message, issues no request and leaves
\* isGenerating and dynamicComponent unchanged.
C10_GeneratingFlag ==
    /\ [](isGenerating => fetchPending)
    /\ (isGenerating ~> ~isGenerating)
    /\ [][(clicks' # clicks /\ Trim(promptValue) = "") =>
            /\ error' = MsgEnterPrompt
            /\ UNCHANGED << isGenerating, dynamicComponent, fetchPending,
                            fetchCount >>]_vars
    /\ [][(clicks' # clicks /\ Trim(promptValue) # "") =>
            (isGenerating' /\ fetchCount' = fetchCount + 1)]_vars

C10_Witness ==
    /\ clicks >= 2
    /\ fetchCount = 1
    /\ dynamicComponent.set
    /\ ~isGenerating
    /\ Trim(promptValue) = ""
    /\ error = MsgEnterPrompt

====
